---- MODULE Spec2Model ----
(***************************************************************************)
(* Model of include/MSc_projects_table.hpp (namespace MSC_PROJECTS): the   *)
(* console table helpers addColumnEntry, endRow, emptyTableRow, tableRow.  *)
(*                                                                         *)
(* The only state the helpers touch is std::cout: the characters inserted  *)
(* so far and the stream's formatting state (width, adjustfield, fill).    *)
(* Each helper is modelled by the sequence of stream operations it         *)
(* performs, in program order; a call executes that sequence on cout.      *)
(* Characters are one-character strings, "\n" is the line break.           *)
(***************************************************************************)
EXTENDS Integers, Sequences, FiniteSets

VARIABLES
  cout,     \* std::cout: [buf, width, adjustfield, fill]
  hist,     \* history: the calls made so far, in the order they began
  pre,      \* history: cout as it was when the latest call began
  who,      \* history: for each character of cout.buf, the index in hist of the call that wrote it
  threads,  \* the caller threads
  pending,  \* per thread: the stream operations its current call has still to perform
  cur       \* per thread: the index in hist of its current call (0: none yet)

vars == <<cout, hist, pre, who, threads, pending, cur>>

(***************************************************************************)
(* Bounds of the model.                                                    *)
(***************************************************************************)
MaxCalls == 2
MaxArgs == 2
MaxEmpty == 3

(***************************************************************************)
(* Values handed to the helpers. A scalar is a string (a std::string or a    *)
(* character array) or an int; a vector holds scalars.                     *)
(***************************************************************************)
StrV(s) == [kind |-> "str", s |-> s, n |-> 0, elems |-> <<>>]
IntV(n) == [kind |-> "int", s |-> <<>>, n |-> n, elems |-> <<>>]
VecV(es) == [kind |-> "vec", s |-> <<>>, n |-> 0, elems |-> es]
NoValue == [kind |-> "none", s |-> <<>>, n |-> 0, elems |-> <<>>]

LongText == <<"a","b","c","d","e","f","g","h","i","j","k","l","m","n","o">>

\* the inputs of the calls
Scalars == { StrV(<<"a">>), StrV(LongText), IntV(-7) }
Vectors == { VecV(<<>>), VecV(<<IntV(-7), IntV(12)>>), VecV(<<StrV(LongText), StrV(<<"c">>)>>) }
RowArgs == { StrV(<<"a">>), StrV(<<"b">>), VecV(<<StrV(LongText), StrV(<<"c">>)>>) }
ArgLists == UNION { [1..k -> RowArgs] : k \in 1..MaxArgs }

ThreadIds == {1, 2}

(***************************************************************************)
(* The stream.                                                             *)
(***************************************************************************)
columnWidth == 14

Repeat(c, n) == [i \in 1..n |-> c]

DigitChar(d) == <<"0","1","2","3","4","5","6","7","8","9">>[d + 1]

RECURSIVE Digits(_)
Digits(n) == IF n < 10 THEN <<DigitChar(n)>>
             ELSE Digits(n \div 10) \o <<DigitChar(n % 10)>>

\* operator<<(int): decimal digits, '-' before a negative number
IntText(n) == IF n < 0 THEN <<"-">> \o Digits(-n) ELSE Digits(n)

\* the characters operator<< produces for a scalar, before padding
Text(v) == IF v.kind = "int" THEN IntText(v.n) ELSE v.s

\* faults of Pad: padding on the wrong side; cutting the text to the width
PadLeft(text, s) ==
  IF s.width > Len(text)
  THEN text \o Repeat(s.fill, s.width - Len(text))
  ELSE text

PadTruncate(text, s) ==
  IF s.width > Len(text)
  THEN Repeat(s.fill, s.width - Len(text)) \o text
  ELSE IF s.width > 0 THEN SubSeq(text, 1, s.width) ELSE text

\* padding of a formatted insertion: to the stream's width with its fill
\* character, after the text when adjustfield is left, before it otherwise;
\* no truncation
Pad(text, s) ==
  IF s.width > Len(text)
  THEN IF s.adjustfield = "left"
       THEN text \o Repeat(s.fill, s.width - Len(text))
       ELSE Repeat(s.fill, s.width - Len(text)) \o text
  ELSE text

\* stream operations
Ins(v) == [op |-> "ins", v |-> v, n |-> 0]
setw(n) == [op |-> "setw", v |-> NoValue, n |-> n]
endl == [op |-> "endl", v |-> NoValue, n |-> 0]

\* fault of Insert: the width outlives the insertion
InsertKeepsWidth(s, v) == [s EXCEPT !.buf = @ \o Pad(Text(v), s)]

\* cout << v: pads to width, then width(0)
Insert(s, v) == [s EXCEPT !.buf = @ \o Pad(Text(v), s), !.width = 0]

\* the effect of one stream operation on the stream
Apply(s, i) ==
  CASE i.op = "ins" -> Insert(s, i.v)
    [] i.op = "setw" -> [s EXCEPT !.width = i.n]
    [] i.op = "endl" -> [s EXCEPT !.buf = @ \o <<"\n">>]

RECURSIVE Exec(_, _)
Exec(s, ops) == IF ops = <<>> THEN s ELSE Exec(Apply(s, Head(ops)), Tail(ops))

Bar == StrV(<<"|">>)
Placeholder == StrV(<<"-","-","-","-","-","-","-","-","-","-","-","-","-","-">>)

(***************************************************************************)
(* The helpers, each as the stream operations it performs.                 *)
(***************************************************************************)
\* fault of addColumnEntry: the cell closes its own row
addColumnEntryClosesRow(t) == << Ins(Bar), setw(columnWidth), Ins(t), Ins(Bar), endl >>

addColumnEntry(t) == << Ins(Bar), setw(columnWidth), Ins(t) >>

\* fault of the vector overload: one separator for the whole vector
RECURSIVE addColumnEntryVecElems(_)
addColumnEntryVecElems(t) ==
  IF t = <<>> THEN <<>>
  ELSE << setw(columnWidth), Ins(Head(t)) >> \o addColumnEntryVecElems(Tail(t))

addColumnEntryVecOneSeparator(t) ==
  IF t = <<>> THEN <<>> ELSE << Ins(Bar) >> \o addColumnEntryVecElems(t)

RECURSIVE addColumnEntryVec(_)
addColumnEntryVec(t) ==
  IF t = <<>> THEN <<>>
  ELSE << Ins(Bar), setw(columnWidth), Ins(Head(t)) >> \o addColumnEntryVec(Tail(t))

\* overload resolution of addColumnEntry(v) inside tableRow
addColumnEntryOf(v) ==
  IF v.kind = "vec" THEN addColumnEntryVec(v.elems) ELSE addColumnEntry(v)

\* faults of endRow: no separator; a line break too many
endRowNoSeparator == << endl >>

endRowTwoBreaks == << Ins(Bar), endl, endl >>

endRow == << Ins(Bar), endl >>

\* fault of the loop of emptyTableRow: one cell too many
RECURSIVE emptyTableRowLoopInclusive(_, _)
emptyTableRowLoopInclusive(i, n) ==
  IF i <= n THEN addColumnEntry(Placeholder) \o emptyTableRowLoopInclusive(i + 1, n) ELSE <<>>

RECURSIVE emptyTableRowLoop(_, _)
emptyTableRowLoop(i, n) ==
  IF i < n THEN addColumnEntry(Placeholder) \o emptyTableRowLoop(i + 1, n) ELSE <<>>

\* fault of emptyTableRow: the row is left open
emptyTableRowNoTerminator(n) == emptyTableRowLoop(0, n)

emptyTableRow(n) == emptyTableRowLoop(0, n) \o << Ins(Bar), endl >>

\* fault of tableRow: the recursive overload ends the row as well
RECURSIVE tableRowEndsEachCell(_)
tableRowEndsEachCell(args) ==
  IF Len(args) = 1
  THEN addColumnEntryOf(args[1]) \o endRow
  ELSE addColumnEntryOf(Head(args)) \o endRow \o tableRowEndsEachCell(Tail(args))

RECURSIVE tableRow(_)
tableRow(args) ==
  IF Len(args) = 1
  THEN addColumnEntryOf(args[1]) \o endRow
  ELSE addColumnEntryOf(Head(args)) \o tableRow(Tail(args))

(***************************************************************************)
(* Calls.                                                                  *)
(***************************************************************************)
Call(op, args, n) == [op |-> op, args |-> args, n |-> n]

\* the stream operations of a call
Body(c) ==
  CASE c.op = "addColumnEntry" -> addColumnEntry(c.args[1])
    [] c.op = "addColumnEntryDefault" -> addColumnEntry(Placeholder)
    [] c.op = "addColumnEntryVec" -> addColumnEntryVec(c.args[1].elems)
    [] c.op = "endRow" -> endRow
    [] c.op = "emptyTableRow" -> emptyTableRow(c.n)
    [] c.op = "tableRow" -> tableRow(c.args)

Init ==
  /\ cout = [buf |-> <<>>, width |-> 0, adjustfield |-> "none", fill |-> " "]
  /\ hist = <<>>
  /\ pre = cout
  /\ who = <<>>
  /\ threads = {1}
  /\ pending = [t \in ThreadIds |-> <<>>]
  /\ cur = [t \in ThreadIds |-> 0]

\* a whole call by the single caller thread
Do(c) ==
  /\ cout' = Exec(cout, Body(c))
  /\ hist' = Append(hist, c)
  /\ pre' = cout
  /\ who' = who \o Repeat(Len(hist) + 1, Len(cout'.buf) - Len(cout.buf))
  /\ UNCHANGED <<threads, pending, cur>>

AddColumnEntry ==
  /\ Len(hist) < MaxCalls
  /\ \E t \in Scalars : Do(Call("addColumnEntry", <<t>>, 0))

AddColumnEntryDefault ==
  /\ Len(hist) < MaxCalls
  /\ Do(Call("addColumnEntryDefault", <<>>, 0))

AddColumnEntryVec ==
  /\ Len(hist) < MaxCalls
  /\ \E t \in Vectors : Do(Call("addColumnEntryVec", <<t>>, 0))

EndRow ==
  /\ Len(hist) < MaxCalls
  /\ Do(Call("endRow", <<>>, 0))

EmptyTableRow ==
  /\ Len(hist) < MaxCalls
  /\ \E n \in 0..MaxEmpty : Do(Call("emptyTableRow", <<>>, n))

TableRow ==
  /\ Len(hist) < MaxCalls
  /\ \E args \in ArgLists : Do(Call("tableRow", args, 0))

Next ==
  \/ AddColumnEntry
  \/ AddColumnEntryDefault
  \/ AddColumnEntryVec
  \/ EndRow
  \/ EmptyTableRow
  \/ TableRow

Spec == Init /\ [][Next]_vars

(***************************************************************************)
(* Several caller threads. Nothing in the helpers locks cout, so a call is *)
(* not one step: its stream operations are performed one at a time and     *)
(* those of another thread's call may come in between. (The standard lets  *)
(* even the characters of one insertion interleave; one insertion per step *)
(* is the coarsest interleaving every build can produce.)                  *)
(***************************************************************************)
MTCalls == { Call("tableRow", <<StrV(<<"a">>)>>, 0), Call("emptyTableRow", <<>>, 1) }

InitMT ==
  /\ cout = [buf |-> <<>>, width |-> 0, adjustfield |-> "none", fill |-> " "]
  /\ hist = <<>>
  /\ pre = cout
  /\ who = <<>>
  /\ threads \in { {1}, {1, 2} }
  /\ pending = [t \in ThreadIds |-> <<>>]
  /\ cur = [t \in ThreadIds |-> 0]

\* thread t enters tableRow or emptyTableRow
Begin(t) ==
  /\ pending[t] = <<>>
  /\ Len(hist) < MaxCalls
  /\ \E c \in MTCalls :
       /\ hist' = Append(hist, c)
       /\ pending' = [pending EXCEPT ![t] = Body(c)]
  /\ cur' = [cur EXCEPT ![t] = Len(hist) + 1]
  /\ pre' = cout
  /\ UNCHANGED <<cout, who, threads>>

\* thread t performs the next stream operation of its call
Step(t) ==
  /\ pending[t] # <<>>
  /\ cout' = Apply(cout, Head(pending[t]))
  /\ pending' = [pending EXCEPT ![t] = Tail(pending[t])]
  /\ who' = who \o Repeat(cur[t], Len(cout'.buf) - Len(cout.buf))
  /\ UNCHANGED <<hist, pre, threads, cur>>

NextMT ==
  \/ \E t \in threads : Begin(t)
  \/ \E t \in threads : Step(t)

SpecMT == InitMT /\ [][NextMT]_vars

(***************************************************************************)
(* Vocabulary of the properties. Expected texts are written out from the   *)
(* documented row format (separator, field of 14, terminator), not from    *)
(* the helpers above.                                                      *)
(***************************************************************************)
Last == hist[Len(hist)]
Called(op) == hist # <<>> /\ Last.op = op

\* the latest call left the earlier output alone and appended exactly txt
Wrote(txt) == cout.buf = pre.buf \o txt
Appended == SubSeq(cout.buf, Len(pre.buf) + 1, Len(cout.buf))

Count(ch, txt) == Cardinality({ i \in DOMAIN txt : txt[i] = ch })

Terminator == <<"|", "\n">>
Dashes == <<"-","-","-","-","-","-","-","-","-","-","-","-","-","-">>

\* the cell of a scalar: separator, then its text right-aligned in 14
\* columns, or in full when it is longer
SpecCell(v) ==
  <<"|">> \o (IF Len(Text(v)) <= 14 THEN Repeat(" ", 14 - Len(Text(v))) ELSE <<>>) \o Text(v)

RECURSIVE SpecCells(_)
SpecCells(vs) == IF vs = <<>> THEN <<>> ELSE SpecCell(Head(vs)) \o SpecCells(Tail(vs))

RECURSIVE DashCells(_)
DashCells(n) == IF n = 0 THEN <<>> ELSE <<"|">> \o Dashes \o DashCells(n - 1)

\* the scalars of an argument list, sequences expanded in place
RECURSIVE Flatten(_)
Flatten(args) ==
  IF args = <<>> THEN <<>>
  ELSE (IF Head(args).kind = "vec" THEN Head(args).elems ELSE <<Head(args)>>)
       \o Flatten(Tail(args))

AllScalar(args) == \A i \in DOMAIN args : args[i].kind # "vec"

NumCells(c) == IF c.op = "emptyTableRow" THEN c.n ELSE Len(Flatten(c.args))

\* what a call is documented to append
Expected(c) ==
  CASE c.op = "addColumnEntry" -> SpecCell(c.args[1])
    [] c.op = "addColumnEntryDefault" -> <<"|">> \o Dashes
    [] c.op = "addColumnEntryVec" -> SpecCells(c.args[1].elems)
    [] c.op = "endRow" -> Terminator
    [] c.op = "emptyTableRow" -> DashCells(c.n) \o Terminator
    [] c.op = "tableRow" -> SpecCells(Flatten(c.args)) \o Terminator

\* a text wider than a column stands somewhere in txt
HasWide(txt) ==
  \E i \in DOMAIN txt :
    /\ i + 14 <= Len(txt)
    /\ \A j \in i..(i + 14) : txt[j] \notin {"|", "\n"}

\* cells begun and rows closed in a text
CellsIn(txt) ==
  Cardinality({ i \in DOMAIN txt : txt[i] = "|" /\ i < Len(txt) /\ txt[i + 1] # "\n" })
TermsIn(txt) == Count("\n", txt)

\* the lines of a text, without their line breaks
RECURSIVE SplitLines(_)
SplitLines(txt) ==
  IF txt = <<>> THEN <<>>
  ELSE LET brk == { i \in DOMAIN txt : txt[i] = "\n" }
           k == IF brk = {} THEN Len(txt) + 1
                ELSE CHOOSE i \in brk : \A j \in brk : i <= j
       IN <<SubSeq(txt, 1, k - 1)>> \o SplitLines(SubSeq(txt, k + 1, Len(txt)))

\* the line each character of the output stands on
LineOf(i) == 1 + Cardinality({ j \in 1..(i - 1) : cout.buf[j] = "\n" })

(***************************************************************************)
(* C1: tableRow(a1..ak) with scalar arguments appends the k cells of the   *)
(* arguments in argument order and then exactly one terminator, which is   *)
(* the last thing written; no terminator stands between the cells.         *)
(***************************************************************************)
C1_TableRowCellsThenOneTerminator ==
  (Called("tableRow") /\ AllScalar(Last.args)) =>
    /\ Wrote(SpecCells(Last.args) \o Terminator)
    /\ Count("\n", Appended) = 1
    /\ Count("|", Appended) = Len(Last.args) + 1
    /\ Appended[Len(Appended)] = "\n"

C1_Witness ==
  /\ Called("tableRow")
  /\ Len(Last.args) = 2
  /\ AllScalar(Last.args)
  /\ Last.args[1] # Last.args[2]
  /\ pre.buf # <<>>

(***************************************************************************)
(* C2: emptyTableRow(n) appends n placeholder cells ('|' and 14 dashes)    *)
(* and then one terminator, the text endRow writes; for n = 0 only the     *)
(* terminator; for n = 2 the line |--------------|--------------| .        *)
(***************************************************************************)
C2_EmptyTableRow ==
  Called("emptyTableRow") =>
    /\ Wrote(DashCells(Last.n) \o Terminator)
    /\ Terminator = Exec([pre EXCEPT !.buf = <<>>], endRow).buf
    /\ Count("\n", Appended) = 1
    /\ Last.n = 0 => Appended = <<"|", "\n">>
    /\ Last.n = 2 =>
         Appended = <<"|","-","-","-","-","-","-","-","-","-","-","-","-","-","-",
                      "|","-","-","-","-","-","-","-","-","-","-","-","-","-","-",
                      "|","\n">>

C2_Witness ==
  /\ Called("emptyTableRow")
  /\ Last.n = 2
  /\ pre.buf # <<>>

(***************************************************************************)
(* C3: addColumnEntry(v) for a scalar whose text has length L <= 14        *)
(* appends 15 characters: '|', 14 - L spaces, the text; tableRow("a","b")  *)
(* on an empty stream gives '|', 13 spaces, 'a', '|', 13 spaces, 'b', '|', *)
(* line break.                                                             *)
(***************************************************************************)
C3_CellIsFifteenWide ==
  /\ (Called("addColumnEntry") /\ Len(Text(Last.args[1])) <= 14) =>
       LET L == Len(Text(Last.args[1])) IN
       /\ Len(cout.buf) = Len(pre.buf) + 15
       /\ SubSeq(cout.buf, 1, Len(pre.buf)) = pre.buf
       /\ Appended[1] = "|"
       /\ \A j \in 2..(15 - L) : Appended[j] = " "
       /\ SubSeq(Appended, 16 - L, 15) = Text(Last.args[1])
  /\ hist = <<Call("tableRow", <<StrV(<<"a">>), StrV(<<"b">>)>>, 0)>> =>
       cout.buf = <<"|"," "," "," "," "," "," "," "," "," "," "," "," "," ","a",
                    "|"," "," "," "," "," "," "," "," "," "," "," "," "," ","b",
                    "|","\n">>

C3_Witness ==
  /\ Called("addColumnEntry")
  /\ Last.args[1] = IntV(-7)
  /\ pre.buf # <<>>

(***************************************************************************)
(* C4: a sequence of m values given to addColumnEntry, directly or as an   *)
(* argument of tableRow, appends m cells in element order, one separator   *)
(* each, each padded on its own; an empty sequence appends nothing.        *)
(***************************************************************************)
C4_SequenceExpands ==
  /\ Called("addColumnEntryVec") =>
       /\ Wrote(SpecCells(Last.args[1].elems))
       /\ Count("|", Appended) = Len(Last.args[1].elems)
       /\ Last.args[1].elems = <<>> => cout.buf = pre.buf
  /\ Called("tableRow") =>
       /\ Wrote(SpecCells(Flatten(Last.args)) \o Terminator)
       /\ Count("|", Appended) = Len(Flatten(Last.args)) + 1

C4_Witness ==
  /\ Called("tableRow")
  /\ Len(Last.args) = 2
  /\ Last.args[1].kind = "vec"
  /\ Len(Last.args[1].elems) = 2
  /\ Last.args[2].kind # "vec"

(***************************************************************************)
(* C5: a scalar whose text is longer than 14 is appended in full after its *)
(* separator, 1 + L characters, and whatever is written with or after it   *)
(* is formatted as ever: the stream's width is back to 0 after every call. *)
(***************************************************************************)
C5_WideValueInFull ==
  /\ (Called("addColumnEntry") /\ Len(Text(Last.args[1])) > 14) =>
       /\ Wrote(<<"|">> \o Text(Last.args[1]))
       /\ Len(Appended) = 1 + Len(Text(Last.args[1]))
  /\ (hist # <<>> /\ HasWide(cout.buf)) =>
       /\ Wrote(Expected(Last))
       /\ cout.width = 0

C5_Witness ==
  /\ Called("tableRow")
  /\ Last.args = <<StrV(<<"a">>), StrV(<<"b">>)>>
  /\ HasWide(pre.buf)
  /\ pre.buf[Len(pre.buf)] = "\n"

(***************************************************************************)
(* C6: addColumnEntry() appends '|' and 14 dashes whatever was called      *)
(* before it.                                                              *)
(***************************************************************************)
C6_PlaceholderAlways ==
  Called("addColumnEntryDefault") =>
    cout.buf = pre.buf \o <<"|","-","-","-","-","-","-","-","-","-","-","-","-","-","-">>

C6_Witness ==
  /\ Called("addColumnEntryDefault")
  /\ Len(hist) >= 2
  /\ hist[Len(hist) - 1].op \in {"addColumnEntry", "tableRow"}

(***************************************************************************)
(* C7: endRow appends one '|' and one line break and nothing else, with    *)
(* any number of cells before it on the line, and leaves the earlier       *)
(* output as it was.                                                       *)
(***************************************************************************)
C7_EndRow ==
  Called("endRow") =>
    /\ cout.buf = pre.buf \o <<"|", "\n">>
    /\ Len(cout.buf) = Len(pre.buf) + 2

C7_Witness ==
  /\ Called("endRow")
  /\ pre.buf # <<>>
  /\ pre.buf[Len(pre.buf)] # "\n"

(***************************************************************************)
(* C8: after tableRow and emptyTableRow calls only, the output is complete *)
(* lines, one per call; each starts with '|', ends with '|' and holds one  *)
(* separator more than the call wrote cells.                               *)
(***************************************************************************)
OnlyRowCalls == \A i \in DOMAIN hist : hist[i].op \in {"tableRow", "emptyTableRow"}

C8_CompleteLines ==
  OnlyRowCalls =>
    LET lines == SplitLines(cout.buf) IN
    /\ cout.buf = <<>> \/ cout.buf[Len(cout.buf)] = "\n"
    /\ Len(lines) = Len(hist)
    /\ Count("\n", cout.buf) = Len(hist)
    /\ \A i \in DOMAIN lines :
         /\ lines[i] # <<>>
         /\ lines[i][1] = "|"
         /\ lines[i][Len(lines[i])] = "|"
         /\ Count("|", lines[i]) = NumCells(hist[i]) + 1

C8_Witness ==
  /\ OnlyRowCalls
  /\ Len(hist) = 2
  /\ hist[1].op = "tableRow"
  /\ NumCells(hist[1]) >= 2
  /\ hist[2].op = "emptyTableRow"

(***************************************************************************)
(* C9, as stated: no operation but tableRow writes at least one cell and a *)
(* terminator in the same call.                                            *)
(***************************************************************************)
C9_OnlyTableRowClosesCells ==
  (hist # <<>> /\ Last.op # "tableRow") =>
    ~(CellsIn(Appended) >= 1 /\ TermsIn(Appended) >= 1)

(***************************************************************************)
(* C9, amended: addColumnEntry and endRow never write both a cell and a    *)
(* terminator in one call; tableRow and emptyTableRow each write one cell  *)
(* per scalar, sequence element or placeholder and then one terminator, so *)
(* emptyTableRow(n) with n >= 1 combines cells and terminator as well.     *)
(***************************************************************************)
C9_RowCallsCloseCells ==
  hist # <<>> =>
    /\ Last.op \notin {"tableRow", "emptyTableRow"} =>
         ~(CellsIn(Appended) >= 1 /\ TermsIn(Appended) >= 1)
    /\ Last.op \in {"tableRow", "emptyTableRow"} =>
         /\ CellsIn(Appended) = NumCells(Last)
         /\ TermsIn(Appended) = 1

C9_Witness ==
  /\ Called("emptyTableRow")
  /\ Last.n >= 1
  /\ CellsIn(Appended) >= 1
  /\ TermsIn(Appended) >= 1

(***************************************************************************)
(* C10: with one caller thread every line holds the output of one call and *)
(* every call's output stands on one line; with two threads a line holding *)
(* cells of both calls, and a row split by the other call's terminator,    *)
(* are reachable (the witness).                                            *)
(***************************************************************************)
MixedLine ==
  \E i, j \in DOMAIN cout.buf : LineOf(i) = LineOf(j) /\ who[i] # who[j]
SplitRow ==
  \E i, j \in DOMAIN cout.buf : who[i] = who[j] /\ LineOf(i) # LineOf(j)

C10_OneThreadNoInterleaving ==
  Cardinality(threads) = 1 => (~MixedLine /\ ~SplitRow)

C10_Witness ==
  /\ threads = {1, 2}
  /\ \E i, j \in DOMAIN cout.buf :
       /\ LineOf(i) = LineOf(j)
       /\ who[i] # who[j]
       /\ cout.buf[i] \in {"a", "-"}
       /\ cout.buf[j] \in {"a", "-"}
  /\ SplitRow
====
